---- MODULE Spec2Model ----
(***************************************************************************)
(* Model of the meal-logging backend in src/app.py: the two tables (user,  *)
(* meal), the clock that stamps new rows, the deployment configuration     *)
(* read from the environment, and one action per HTTP handler.             *)
(*                                                                         *)
(* Texts (query arguments, form fields, usernames, formatted dates) are    *)
(* sequences of one-character strings, so that parsing, formatting and     *)
(* string comparison are computed character by character.                  *)
(***************************************************************************)
EXTENDS Integers, Sequences, FiniteSets, TLC

----------------------------------------------------------------------------
(* Bounds of the model *)

MaxUsers == 2
MaxMeals == 2
MaxClockDays == 1
NumProcs == 2

----------------------------------------------------------------------------
(* Characters and texts *)

Digits == <<"0", "1", "2", "3", "4", "5", "6", "7", "8", "9">>

DigitSet == {Digits[i] : i \in 1..10}

\* int(c) for a decimal digit character
DigitVal(c) == (CHOOSE i \in 1..10 : Digits[i] = c) - 1

\* ord(c) for the characters the model uses
CharCode(c) ==
    CASE c = " " -> 32
      [] c = "-" -> 45
      [] c \in DigitSet -> 48 + DigitVal(c)
      [] c = "a" -> 97
      [] c = "b" -> 98
      [] c = "x" -> 120

\* Python's str.__lt__: code-point lexicographic order
RECURSIVE StrLess(_, _)
StrLess(s, t) ==
    IF t = <<>> THEN FALSE
    ELSE IF s = <<>> THEN TRUE
    ELSE IF CharCode(Head(s)) < CharCode(Head(t)) THEN TRUE
    ELSE IF CharCode(Head(s)) > CharCode(Head(t)) THEN FALSE
    ELSE StrLess(Tail(s), Tail(t))

\* sorted(keys): ascending list of a set of distinct texts
RECURSIVE SortedTexts(_)
SortedTexts(S) ==
    IF S = {} THEN <<>>
    ELSE LET least == CHOOSE s \in S : \A t \in S \ {s} : StrLess(s, t)
         IN  <<least>> \o SortedTexts(S \ {least})

AllDigits(s) == \A i \in 1..Len(s) : s[i] \in DigitSet

\* value of a non-empty run of decimal digits
RECURSIVE DecimalValue(_)
DecimalValue(s) ==
    IF s = <<>> THEN 0
    ELSE 10 * DecimalValue(SubSeq(s, 1, Len(s) - 1)) + DigitVal(s[Len(s)])

----------------------------------------------------------------------------
(* datetime: calendar date plus a time of day.  tod = 0 is midnight, tod = 1 *)
(* stands for every later instant of the same day.                          *)

MINYEAR == 1
MAXYEAR == 9999

IsLeap(y) == (y % 4 = 0) /\ ((y % 100 # 0) \/ (y % 400 = 0))

DaysInMonth(y, m) ==
    IF m = 2 THEN (IF IsLeap(y) THEN 29 ELSE 28)
    ELSE IF m \in {4, 6, 9, 11} THEN 30 ELSE 31

DateTime(y, m, d, t) == [year |-> y, month |-> m, day |-> d, tod |-> t]

\* datetime.__lt__  (also the datastore's comparison of DateTime columns)
DtLess(a, b) ==
    \/ a.year < b.year
    \/ a.year = b.year /\ a.month < b.month
    \/ a.year = b.year /\ a.month = b.month /\ a.day < b.day
    \/ a.year = b.year /\ a.month = b.month /\ a.day = b.day /\ a.tod < b.tod

DtLeq(a, b) == a = b \/ DtLess(a, b)

\* dt + timedelta(days=1); past datetime.max it raises OverflowError
AddDay(dt) ==
    IF dt.day < DaysInMonth(dt.year, dt.month)
    THEN [ok |-> TRUE, dt |-> [dt EXCEPT !.day = dt.day + 1]]
    ELSE IF dt.month < 12
    THEN [ok |-> TRUE, dt |-> [dt EXCEPT !.month = dt.month + 1, !.day = 1]]
    ELSE IF dt.year < MAXYEAR
    THEN [ok |-> TRUE, dt |-> [dt EXCEPT !.year = dt.year + 1, !.month = 1, !.day = 1]]
    ELSE [ok |-> FALSE, dt |-> dt]

Pad2(n) == <<Digits[(n \div 10) + 1], Digits[(n % 10) + 1]>>

Pad4(n) == <<Digits[(n \div 1000) + 1], Digits[((n \div 100) % 10) + 1],
             Digits[((n \div 10) % 10) + 1], Digits[(n % 10) + 1]>>

\* dt.strftime('%Y-%m-%d')
strftime(dt) == Pad4(dt.year) \o <<"-">> \o Pad2(dt.month) \o <<"-">> \o Pad2(dt.day)

\* the texts the directive %m matches: 1[0-2] | 0[1-9] | [1-9]
MatchesMonth(s) ==
    \/ Len(s) = 2 /\ s[1] = "1" /\ s[2] \in {"0", "1", "2"}
    \/ Len(s) = 2 /\ s[1] = "0" /\ s[2] \in DigitSet \ {"0"}
    \/ Len(s) = 1 /\ s[1] \in DigitSet \ {"0"}

\* the texts the directive %d matches: 3[01] | [12]\d | 0[1-9] | [1-9] | ' '[1-9]
MatchesDay(s) ==
    \/ Len(s) = 2 /\ s[1] = "3" /\ s[2] \in {"0", "1"}
    \/ Len(s) = 2 /\ s[1] \in {"1", "2"} /\ s[2] \in DigitSet
    \/ Len(s) = 2 /\ s[1] = "0" /\ s[2] \in DigitSet \ {"0"}
    \/ Len(s) = 1 /\ s[1] \in DigitSet \ {"0"}
    \/ Len(s) = 2 /\ s[1] = " " /\ s[2] \in DigitSet \ {"0"}

\* the splits of s the pattern (\d\d\d\d)-(%m)-(%d) matches to the end of s
DateSplits(s) ==
    {ml \in {1, 2} :
        /\ Len(s) \in {6 + ml + 1, 6 + ml + 2}
        /\ AllDigits(SubSeq(s, 1, 4))
        /\ s[5] = "-"
        /\ MatchesMonth(SubSeq(s, 6, 5 + ml))
        /\ s[6 + ml] = "-"
        /\ MatchesDay(SubSeq(s, 7 + ml, Len(s)))}

\* the variant of strptime that forgets the day-of-month check
strptime_nocalendar(s) ==
    IF DateSplits(s) = {} THEN [ok |-> FALSE]
    ELSE LET ml == CHOOSE k \in DateSplits(s) : TRUE
             y  == DecimalValue(SubSeq(s, 1, 4))
             m  == DecimalValue(SubSeq(s, 6, 5 + ml))
             dt == SubSeq(s, 7 + ml, Len(s))
             d  == DecimalValue(IF dt[1] = " " THEN Tail(dt) ELSE dt)
         IN  IF y < MINYEAR
             THEN [ok |-> FALSE]
             ELSE [ok |-> TRUE, dt |-> DateTime(y, m, d, 0)]

\* datetime.strptime(s, '%Y-%m-%d'): ok = FALSE stands for ValueError
strptime(s) ==
    IF DateSplits(s) = {} THEN [ok |-> FALSE]
    ELSE LET ml == CHOOSE k \in DateSplits(s) : TRUE
             y  == DecimalValue(SubSeq(s, 1, 4))
             m  == DecimalValue(SubSeq(s, 6, 5 + ml))
             dt == SubSeq(s, 7 + ml, Len(s))
             d  == DecimalValue(IF dt[1] = " " THEN Tail(dt) ELSE dt)
         IN  IF y < MINYEAR \/ d > DaysInMonth(y, m)
             THEN [ok |-> FALSE]
             ELSE [ok |-> TRUE, dt |-> DateTime(y, m, d, 0)]

\* float(s) for the form field weight: ok = FALSE stands for ValueError
ParseFloat(s) ==
    IF s # <<>> /\ AllDigits(s) THEN [ok |-> TRUE, value |-> DecimalValue(s)]
    ELSE [ok |-> FALSE]

----------------------------------------------------------------------------
(* Request arguments.  request.args.get / data.get give None for an absent *)
(* key: given = FALSE.                                                     *)

Missing == [given |-> FALSE, text |-> <<>>]

Arg(t) == [given |-> TRUE, text |-> t]

\* Python truthiness of an optional text: None and '' are falsy
Falsy(a) == ~a.given \/ a.text = <<>>

D_1230 == <<"2", "0", "2", "3", "-", "1", "2", "-", "3", "0">>
D_1231 == <<"2", "0", "2", "3", "-", "1", "2", "-", "3", "1">>
D_0101 == <<"2", "0", "2", "4", "-", "0", "1", "-", "0", "1">>
D_0101_short == <<"2", "0", "2", "4", "-", "1", "-", "1">>
D_0229_noleap == <<"2", "0", "2", "3", "-", "0", "2", "-", "2", "9">>
D_max == <<"9", "9", "9", "9", "-", "1", "2", "-", "3", "1">>

\* the other values a date argument can take: absent, empty, no calendar
\* date, the last day of datetime
OddDateArgs == {Missing, Arg(<<>>), Arg(D_0229_noleap), Arg(D_max)}

UserIdArgs == {Arg(<<Digits[i + 1]>>) : i \in 1..MaxUsers}

StrictDateArgs == {Arg(D_1230), Arg(D_1231), Arg(D_0101)}

\* the (start, end, user_id) triples GET /meal_history is called with
HistoryRequests ==
    {<<s, e, u>> : s \in StrictDateArgs, e \in StrictDateArgs, u \in UserIdArgs}
    \cup {<<Arg(D_0101_short), Arg(D_0101), Arg(<<"1">>)>>,
          <<Arg(D_1231), Arg(D_0101_short), Arg(<<"1">>)>>}
    \cup {<<s, Arg(D_0101), Arg(<<"1">>)>> : s \in OddDateArgs}
    \cup {<<Arg(D_1231), e, Arg(<<"1">>)>> : e \in OddDateArgs}
    \cup {<<Arg(D_1231), Arg(D_0101), u>> : u \in {Missing, Arg(<<>>)}}

\* one request of each kind of answer
FewHistoryRequests ==
    {<<Arg(D_1231), Arg(D_0101), Arg(<<"1">>)>>,
     <<Missing, Arg(D_0101), Arg(<<"1">>)>>}

UsernameArgs == {Missing, Arg(<<>>), Arg(<<"a">>), Arg(<<"b">>)}

\* (calories, protein, carbs, fat) of the meals clients submit
Nutritions == {<<5, 1, 2, 3>>, <<7, 2, 1, 4>>}

\* a JSON body of POST /save_meal: user_id absent or a number, the required
\* fields all present or not
Body(has, uid, complete, nutrition) ==
    [has_user_id |-> has, user_id |-> uid, complete |-> complete,
     nutrition |-> nutrition]

\* bodies without a usable user_id, bodies lacking a field, complete bodies
SaveBodies ==
    {Body(FALSE, 0, c, <<5, 1, 2, 3>>) : c \in BOOLEAN}
    \cup {Body(TRUE, 0, TRUE, <<5, 1, 2, 3>>), Body(TRUE, 1, FALSE, <<5, 1, 2, 3>>)}
    \cup {Body(TRUE, u, TRUE, <<5, 1, 2, 3>>) : u \in 1..MaxUsers}

\* complete bodies with every nutrition, and one without user_id
HistorySaveBodies ==
    {Body(TRUE, u, TRUE, n) : u \in 1..MaxUsers, n \in Nutritions}
    \cup {Body(FALSE, 0, TRUE, <<5, 1, 2, 3>>)}

----------------------------------------------------------------------------
(* State *)

VARIABLES
    users,      \* rows of table user
    meals,      \* rows of table meal
    now,        \* datetime.utcnow()
    backend,    \* the datastore DATABASE_URL selects
    req,        \* the request answered last
    resp,       \* its response
    calls,      \* outbound model calls made while handling it
    pc,         \* per worker: position inside create_user
    pending     \* per worker: the username its create_user checked

vars == <<users, meals, now, backend, req, resp, calls, pc, pending>>

Procs == 1..NumProcs

ClockStart == DateTime(2023, 12, 31, 0)

RECURSIVE DaysAfter(_, _)
DaysAfter(dt, n) == IF n = 0 THEN dt ELSE DaysAfter(AddDay(dt).dt, n - 1)

ClockEnd == [DaysAfter(ClockStart, MaxClockDays) EXCEPT !.tod = 1]

\* app.config['SQLALCHEMY_DATABASE_URI']: SQLite unless DATABASE_URL is set
Backends == {"sqlite", "postgresql"}

\* SQLite leaves foreign keys unenforced unless PRAGMA foreign_keys is turned on
ForeignKeysEnforced(b) == b = "postgresql"

Init ==
    /\ users = {}
    /\ meals = {}
    /\ now = ClockStart
    /\ backend \in Backends
    /\ req = [op |-> "none"]
    /\ resp = [op |-> "none", status |-> 0]
    /\ calls = 0
    /\ pc = [p \in Procs |-> "idle"]
    /\ pending = [p \in Procs |-> <<>>]

\* time passes
Tick ==
    /\ DtLess(now, ClockEnd)
    /\ now' = IF now.tod = 0 THEN [now EXCEPT !.tod = 1]
              ELSE [AddDay(now).dt EXCEPT !.tod = 0]
    /\ UNCHANGED <<users, meals, backend, req, resp, calls, pc, pending>>

\* autoincrement primary key
NextId(rows) ==
    IF rows = {} THEN 1
    ELSE (CHOOSE i \in {r.id : r \in rows} : \A r \in rows : r.id <= i) + 1

----------------------------------------------------------------------------
(* POST /users *)

\* an existence check that finds nothing
UsernameTaken_never(rows, name) == FALSE

\* User.query.filter_by(username=username).first()
UsernameTaken(rows, name) == \E u \in rows : u.username = name

\* a user table created without the constraint
UniqueViolation_absent(rows, name) == FALSE

\* the UNIQUE constraint on user.username
UniqueViolation(rows, name) == \E u \in rows : u.username = name

NewUser(rows, name, t) == [id |-> NextId(rows), username |-> name, created_at |-> t]

UserJson(u) == [id |-> u.id, username |-> u.username, created_at |-> u.created_at]

\* db.session.add(new_user); db.session.commit(); return jsonify(...)
CommitUser(name) ==
    IF UniqueViolation(users, name)
    THEN /\ resp' = [op |-> "create_user", status |-> 500, exception |-> "IntegrityError"]
         /\ users' = users
    ELSE /\ Cardinality(users) < MaxUsers
         /\ users' = users \cup {NewUser(users, name, now)}
         /\ resp' = [op |-> "create_user", status |-> 200,
                     user |-> UserJson(NewUser(users, name, now))]

\* the handler run without another request in between
CreateUser(username) ==
    /\ req' = [op |-> "create_user", username |-> username]
    /\ IF Falsy(username)
       THEN /\ resp' = [op |-> "create_user", status |-> 400,
                        error |-> "Username is required"]
            /\ users' = users
       ELSE IF UsernameTaken(users, username.text)
       THEN /\ resp' = [op |-> "create_user", status |-> 400,
                        error |-> "Username already exists"]
            /\ users' = users
       ELSE CommitUser(username.text)
    /\ calls' = 0
    /\ UNCHANGED <<meals, now, backend, pc, pending>>

----------------------------------------------------------------------------
(* POST /save_meal *)

\* a handler that goes on without the check
NoUserId_unchecked(body) == FALSE

\* if not user_id: None and 0 are falsy
NoUserId(body) == ~body.has_user_id \/ body.user_id = 0

\* the FOREIGN KEY meal.user_id -> user.id, where the datastore enforces it
ForeignKeyViolation(body) ==
    ForeignKeysEnforced(backend) /\ ~\E u \in users : u.id = body.user_id

NewMeal(rows, body, t) ==
    [id |-> NextId(rows), date |-> t, weight |-> 150, description |-> "meal",
     calories |-> body.nutrition[1], protein |-> body.nutrition[2],
     carbs |-> body.nutrition[3], fat |-> body.nutrition[4],
     image_data |-> "b64", user_id |-> body.user_id]

\* an insert that overwrites the user's earlier rows instead of adding one
InsertMeal_overwrite(rows, body, t) ==
    {m \in rows : m.user_id # body.user_id} \cup {NewMeal(rows, body, t)}

\* db.session.add(new_meal); db.session.commit()
InsertMeal(rows, body, t) == rows \cup {NewMeal(rows, body, t)}

SaveMeal(body) ==
    /\ req' = [op |-> "save_meal", body |-> body]
    /\ IF NoUserId(body)
       THEN /\ resp' = [op |-> "save_meal", status |-> 400,
                        error |-> "User ID is required"]
            /\ meals' = meals
       ELSE IF ~body.complete
       THEN /\ resp' = [op |-> "save_meal", status |-> 500, exception |-> "KeyError"]
            /\ meals' = meals
       ELSE IF ForeignKeyViolation(body)
       THEN /\ resp' = [op |-> "save_meal", status |-> 500,
                        exception |-> "IntegrityError"]
            /\ meals' = meals
       ELSE /\ Cardinality(meals) < MaxMeals
            /\ meals' = InsertMeal(meals, body, now)
            /\ resp' = [op |-> "save_meal", status |-> 200, success |-> TRUE]
    /\ calls' = 0
    /\ UNCHANGED <<users, now, backend, pc, pending>>

----------------------------------------------------------------------------
(* POST /upload *)

\* the multipart part meal_photo: absent, or present with a filename
NoFile == [present |-> FALSE, filename |-> <<>>]

EmptyFile == [present |-> TRUE, filename |-> <<>>]

Photo == [present |-> TRUE, filename |-> <<"x">>]

WeightArgs == {Missing, Arg(<<>>), Arg(<<"1", "5", "0">>)}

\* what analyze_image_with_openai meets: no OPENAI_API_KEY, a reply, a failure
AnalysisOutcomes == {"no_key", "reply", "failure"}

\* the (file, weight, outcome) triples of POST /upload; the outcome matters
\* only to the requests that reach the analysis
UploadRequests ==
    {<<f, w, "reply">> : f \in {NoFile, EmptyFile}, w \in WeightArgs}
    \cup {<<Photo, w, o>> : w \in WeightArgs, o \in AnalysisOutcomes}

\* a handler that also stores the analysed meal
UploadMeal_persist(file, weight, outcome) ==
    /\ req' = [op |-> "upload", file |-> file, weight |-> weight]
    /\ IF ~file.present
       THEN /\ resp' = [op |-> "upload", status |-> 400, error |-> "No file uploaded"]
            /\ calls' = 0
            /\ meals' = meals
       ELSE IF ~ParseFloat(IF weight.given THEN weight.text ELSE <<"0">>).ok
       THEN /\ resp' = [op |-> "upload", status |-> 500, error |-> "Server error"]
            /\ calls' = 0
            /\ meals' = meals
       ELSE IF file.filename = <<>>
       THEN /\ resp' = [op |-> "upload", status |-> 400, error |-> "No file selected"]
            /\ calls' = 0
            /\ meals' = meals
       ELSE IF outcome = "no_key"
       THEN /\ resp' = [op |-> "upload", status |-> 500,
                        error |-> "Error processing image"]
            /\ calls' = 0
            /\ meals' = meals
       ELSE IF outcome = "failure"
       THEN /\ resp' = [op |-> "upload", status |-> 500,
                        error |-> "Error processing image"]
            /\ calls' = 1
            /\ meals' = meals
       ELSE /\ Cardinality(meals) < MaxMeals
            /\ resp' = [op |-> "upload", status |-> 200, analysis |-> "analysis",
                        image_data |-> "b64"]
            /\ calls' = 1
            /\ meals' = InsertMeal(meals, Body(TRUE, 1, TRUE, <<5, 1, 2, 3>>), now)
    /\ UNCHANGED <<users, now, backend, pc, pending>>

\* if file: holds of every part with a filename, so 'Invalid file' is never
\* the answer
UploadMeal(file, weight, outcome) ==
    /\ req' = [op |-> "upload", file |-> file, weight |-> weight]
    /\ IF ~file.present
       THEN /\ resp' = [op |-> "upload", status |-> 400, error |-> "No file uploaded"]
            /\ calls' = 0
       ELSE IF ~ParseFloat(IF weight.given THEN weight.text ELSE <<"0">>).ok
       THEN /\ resp' = [op |-> "upload", status |-> 500, error |-> "Server error"]
            /\ calls' = 0
       ELSE IF file.filename = <<>>
       THEN /\ resp' = [op |-> "upload", status |-> 400, error |-> "No file selected"]
            /\ calls' = 0
       ELSE IF outcome = "no_key"
       THEN /\ resp' = [op |-> "upload", status |-> 500,
                        error |-> "Error processing image"]
            /\ calls' = 0
       ELSE IF outcome = "failure"
       THEN /\ resp' = [op |-> "upload", status |-> 500,
                        error |-> "Error processing image"]
            /\ calls' = 1
       ELSE /\ resp' = [op |-> "upload", status |-> 200, analysis |-> "analysis",
                        image_data |-> "b64"]
            /\ calls' = 1
    /\ UNCHANGED <<users, meals, now, backend, pc, pending>>

----------------------------------------------------------------------------
(* GET /, GET /users, GET /meals *)

Index ==
    /\ req' = [op |-> "index"]
    /\ resp' = [op |-> "index", status |-> 200]
    /\ calls' = 0
    /\ UNCHANGED <<users, meals, now, backend, pc, pending>>

\* the rows as a list ordered by username
RECURSIVE OrderByUsername(_)
OrderByUsername(rows) ==
    IF rows = {} THEN <<>>
    ELSE LET first == CHOOSE u \in rows :
                         \A v \in rows \ {u} : ~StrLess(v.username, u.username)
         IN  <<UserJson(first)>> \o OrderByUsername(rows \ {first})

GetUsers ==
    /\ req' = [op |-> "get_users"]
    /\ resp' = [op |-> "get_users", status |-> 200, users |-> OrderByUsername(users)]
    /\ calls' = 0
    /\ UNCHANGED <<users, meals, now, backend, pc, pending>>

\* the integer a user_id query text stands for when compared with meal.user_id
UserIdValue(t) == DecimalValue(t)

MealDateArgs == {Missing, Arg(D_1231)}

GetMeals(date, user_id) ==
    /\ req' = [op |-> "get_meals", date |-> date, user_id |-> user_id]
    /\ IF Falsy(user_id)
       THEN resp' = [op |-> "get_meals", status |-> 400, error |-> "User ID is required"]
       ELSE LET day == IF date.given THEN date.text ELSE strftime(now)
            IN  resp' = [op |-> "get_meals", status |-> 200,
                         meals |-> {m \in meals :
                                      /\ strftime(m.date) = day
                                      /\ m.user_id = UserIdValue(user_id.text)}]
    /\ calls' = 0
    /\ UNCHANGED <<users, meals, now, backend, pc, pending>>

----------------------------------------------------------------------------
(* GET /meal_history *)

\* a filter that forgets Meal.user_id == user_id
MealsInRange_anyuser(rows, start, end, uid) ==
    {m \in rows : DtLeq(start, m.date) /\ DtLess(m.date, end)}

\* Meal.query.filter(date >= start, date < end, user_id == user_id)
MealsInRange(rows, start, end, uid) ==
    {m \in rows : DtLeq(start, m.date) /\ DtLess(m.date, end) /\ m.user_id = uid}

\* .order_by(Meal.date).all()
RECURSIVE OrderByDate(_)
OrderByDate(rows) ==
    IF rows = {} THEN <<>>
    ELSE LET first == CHOOSE m \in rows :
                         \A n \in rows \ {m} :
                             DtLess(m.date, n.date) \/ (m.date = n.date /\ m.id < n.id)
         IN  <<first>> \o OrderByDate(rows \ {first})

ZeroBucket == [calories |-> 0, protein |-> 0, carbs |-> 0, fat |-> 0]

\* dict[key] = value
Put(dict, key, value) ==
    [k \in DOMAIN dict \cup {key} |-> IF k = key THEN value ELSE dict[k]]

\* while current_date < end_date: ... current_date += timedelta(days=1)
RECURSIVE InitBuckets(_, _, _)
InitBuckets(current, end, dict) ==
    IF DtLess(current, end)
    THEN InitBuckets(AddDay(current).dt, end, Put(dict, strftime(current), ZeroBucket))
    ELSE dict

\* for meal in meals: meals_by_date[date_str][...] += ...; a key that is
\* not in the dict raises KeyError (ok = FALSE)
RECURSIVE SumMeals(_, _)
SumMeals(list, dict) ==
    IF list = <<>> THEN [ok |-> TRUE, dict |-> dict]
    ELSE LET meal == Head(list)
             key  == strftime(meal.date)
         IN  IF key \notin DOMAIN dict THEN [ok |-> FALSE, dict |-> dict]
             ELSE LET b == dict[key]
                  IN  SumMeals(Tail(list),
                        Put(dict, key, [calories |-> b.calories + meal.calories,
                                        protein  |-> b.protein + meal.protein,
                                        carbs    |-> b.carbs + meal.carbs,
                                        fat      |-> b.fat + meal.fat]))

Column(dict, dates, field) == [i \in 1..Len(dates) |-> dict[dates[i]][field]]

\* the response of the handler to (start, end, user_id) over the stored rows
MealHistory(start, end, user_id, rows) ==
    IF Falsy(start) \/ Falsy(end) \/ Falsy(user_id)
    THEN [op |-> "meal_history", status |-> 400,
          error |-> "Start date, end date, and user ID are required"]
    ELSE IF ~strptime(start.text).ok \/ ~strptime(end.text).ok
    THEN [op |-> "meal_history", status |-> 400, error |-> "ValueError"]
    ELSE IF ~AddDay(strptime(end.text).dt).ok
    THEN [op |-> "meal_history", status |-> 500, error |-> "OverflowError"]
    ELSE LET start_date == strptime(start.text).dt
             end_date   == AddDay(strptime(end.text).dt).dt
             found  == OrderByDate(MealsInRange(rows, start_date, end_date,
                                                UserIdValue(user_id.text)))
             summed == SumMeals(found, InitBuckets(start_date, end_date, <<>>))
             dates  == SortedTexts(DOMAIN summed.dict)
         IN  IF ~summed.ok
             THEN [op |-> "meal_history", status |-> 500, error |-> "KeyError"]
             ELSE [op |-> "meal_history", status |-> 200, dates |-> dates,
                   calories |-> Column(summed.dict, dates, "calories"),
                   protein  |-> Column(summed.dict, dates, "protein"),
                   carbs    |-> Column(summed.dict, dates, "carbs"),
                   fat      |-> Column(summed.dict, dates, "fat")]

GetMealHistory(start, end, user_id) ==
    /\ req' = [op |-> "meal_history", start |-> start, end |-> end,
               user_id |-> user_id]
    /\ resp' = MealHistory(start, end, user_id, meals)
    /\ calls' = 0
    /\ UNCHANGED <<users, meals, now, backend, pc, pending>>

----------------------------------------------------------------------------
(* POST /users handled by concurrent workers: the existence check and the  *)
(* insert with its commit are separate steps of each worker.               *)

\* lines 308-316: read the body, check, and answer 400 or go on
CreateUserCheck(p, username) ==
    /\ pc[p] = "idle"
    /\ IF Falsy(username)
       THEN /\ req' = [op |-> "create_user", username |-> username]
            /\ resp' = [op |-> "create_user", status |-> 400,
                        error |-> "Username is required"]
            /\ UNCHANGED <<pc, pending>>
       ELSE IF UsernameTaken(users, username.text)
       THEN /\ req' = [op |-> "create_user", username |-> username]
            /\ resp' = [op |-> "create_user", status |-> 400,
                        error |-> "Username already exists"]
            /\ UNCHANGED <<pc, pending>>
       ELSE /\ UNCHANGED <<req, resp>>
            /\ pc' = [pc EXCEPT ![p] = "checked"]
            /\ pending' = [pending EXCEPT ![p] = username.text]
    /\ calls' = 0
    /\ UNCHANGED <<users, meals, now, backend>>

\* lines 318-326: insert, commit, answer
CreateUserCommit(p) ==
    /\ pc[p] = "checked"
    /\ req' = [op |-> "create_user", username |-> Arg(pending[p])]
    /\ CommitUser(pending[p])
    /\ pc' = [pc EXCEPT ![p] = "idle"]
    /\ pending' = [pending EXCEPT ![p] = <<>>]
    /\ calls' = 0
    /\ UNCHANGED <<meals, now, backend>>

----------------------------------------------------------------------------
(* Specifications *)

\* requests handled one after the other
Next ==
    \/ Tick
    \/ Index
    \/ \E r \in UploadRequests : UploadMeal(r[1], r[2], r[3])
    \/ \E body \in SaveBodies : SaveMeal(body)
    \/ \E date \in MealDateArgs, user_id \in {Missing, Arg(<<"1">>)} :
          GetMeals(date, user_id)
    \/ \E r \in FewHistoryRequests : GetMealHistory(r[1], r[2], r[3])
    \/ GetUsers
    \/ \E username \in UsernameArgs : CreateUser(username)

Spec == Init /\ [][Next]_vars

\* the meal table and its aggregation, with every kind of date argument
NextHistory ==
    \/ Tick
    \/ \E body \in HistorySaveBodies : SaveMeal(body)
    \/ \E r \in HistoryRequests : GetMealHistory(r[1], r[2], r[3])

SpecHistory == Init /\ [][NextHistory]_vars

\* POST /users requests of concurrent workers, interleaved step by step
NextConc ==
    \/ Tick
    \/ GetUsers
    \/ \E p \in Procs, username \in UsernameArgs : CreateUserCheck(p, username)
    \/ \E p \in Procs : CreateUserCommit(p)

SpecConc == Init /\ [][NextConc]_vars

----------------------------------------------------------------------------
(* The calendar, stated apart from the handlers: what the properties below *)
(* measure the answers against.                                            *)

MonthLengths == <<31, 28, 31, 30, 31, 30, 31, 31, 30, 31, 30, 31>>

LengthOfMonth(y, m) ==
    IF m = 2 /\ (y % 400 = 0 \/ (y % 4 = 0 /\ y % 100 # 0)) THEN 29
    ELSE MonthLengths[m]

IsCalendarDate(y, m, d) ==
    /\ y \in 1..9999
    /\ m \in 1..12
    /\ d \in 1..LengthOfMonth(y, m)

\* the fields of a text between its dashes
RECURSIVE SplitDash(_)
SplitDash(t) ==
    IF \A i \in 1..Len(t) : t[i] # "-" THEN <<t>>
    ELSE LET i == CHOOSE k \in 1..Len(t) :
                     t[k] = "-" /\ \A j \in 1..(k - 1) : t[j] # "-"
         IN  <<SubSeq(t, 1, i - 1)>> \o SplitDash(SubSeq(t, i + 1, Len(t)))

Numeral(f) == f # <<>> /\ AllDigits(f)

\* the numbers a year-month-day text names
DateValue(t) ==
    LET f == SplitDash(t)
        d == IF f[3][1] = " " THEN Tail(f[3]) ELSE f[3]
    IN  <<DecimalValue(f[1]), DecimalValue(f[2]), DecimalValue(d)>>

\* t is a date written YYYY-MM-DD
IsIsoDate(t) ==
    /\ Len(SplitDash(t)) = 3
    /\ Len(SplitDash(t)[1]) = 4 /\ Len(SplitDash(t)[2]) = 2 /\ Len(SplitDash(t)[3]) = 2
    /\ \A i \in 1..3 : Numeral(SplitDash(t)[i])
    /\ IsCalendarDate(DateValue(t)[1], DateValue(t)[2], DateValue(t)[3])

\* t is a date with a four-digit year and a month and a day of one or two
\* digits each (the day possibly written as a space and a digit)
IsLooseDate(t) ==
    /\ Len(SplitDash(t)) = 3
    /\ Len(SplitDash(t)[1]) = 4 /\ Numeral(SplitDash(t)[1])
    /\ Len(SplitDash(t)[2]) \in {1, 2} /\ Numeral(SplitDash(t)[2])
    /\ \/ Len(SplitDash(t)[3]) \in {1, 2} /\ Numeral(SplitDash(t)[3])
       \/ Len(SplitDash(t)[3]) = 2 /\ SplitDash(t)[3][1] = " "
            /\ Numeral(Tail(SplitDash(t)[3]))
    /\ IsCalendarDate(DateValue(t)[1], DateValue(t)[2], DateValue(t)[3])

RECURSIVE DaysBeforeMonth(_, _)
DaysBeforeMonth(y, m) ==
    IF m = 1 THEN 0 ELSE DaysBeforeMonth(y, m - 1) + LengthOfMonth(y, m - 1)

\* the number of the day <<y, m, d>>, counted from 0001-01-01
Ordinal(v) ==
    LET y == v[1] - 1
    IN  365 * y + (y \div 4) - (y \div 100) + (y \div 400)
          + DaysBeforeMonth(v[1], v[2]) + v[3]

\* the stored meals of user uid on the calendar day v, whatever their time
MealsOn(uid, v) ==
    {m \in meals : m.user_id = uid
                   /\ <<m.date.year, m.date.month, m.date.day>> = v}

RECURSIVE Total(_, _)
Total(rows, field) ==
    IF rows = {} THEN 0
    ELSE LET m == CHOOSE r \in rows : TRUE
         IN  m[field] + Total(rows \ {m}, field)

NutritionFields == {"calories", "protein", "carbs", "fat"}

\* the last step handled a request to op (time did not just pass)
Handled(op) == now' = now /\ req'.op = op

----------------------------------------------------------------------------
(* GET /meal_history: claims C1, C2, C10 (under SpecHistory) *)

RequestedUser == DecimalValue(req.user_id.text)

\* the answer lists the days first, first + 1, ... in YYYY-MM-DD, one each,
\* with four columns of the same length and zeros on the user's empty days
OnePerDay(first, last) ==
    /\ resp.status = 200
    /\ Len(resp.dates) = last - first + 1
    /\ \A i \in 1..Len(resp.dates) :
          /\ IsIsoDate(resp.dates[i])
          /\ Ordinal(DateValue(resp.dates[i])) = first + i - 1
          /\ MealsOn(RequestedUser, DateValue(resp.dates[i])) = {}
                => \A f \in NutritionFields : resp[f][i] = 0
    /\ \A f \in NutritionFields : Len(resp[f]) = Len(resp.dates)

\* C1: every request with start and end written YYYY-MM-DD, start <= end,
\* and a user_id is answered with exactly one entry per day of [start, end],
\* ascending, the four columns as long as dates, and 0 on every day on which
\* the user has no meal.
C1_OneEntryPerDay ==
    (/\ resp.op = "meal_history"
     /\ ~Falsy(req.start) /\ ~Falsy(req.end) /\ ~Falsy(req.user_id)
     /\ IsIsoDate(req.start.text) /\ IsIsoDate(req.end.text)
     /\ Ordinal(DateValue(req.start.text)) <= Ordinal(DateValue(req.end.text)))
    => OnePerDay(Ordinal(DateValue(req.start.text)),
                 Ordinal(DateValue(req.end.text)))

\* C1, for the requests whose end is not the last day datetime can hold
C1_OneEntryPerDayBelowMax ==
    (/\ resp.op = "meal_history"
     /\ ~Falsy(req.start) /\ ~Falsy(req.end) /\ ~Falsy(req.user_id)
     /\ IsIsoDate(req.start.text) /\ IsIsoDate(req.end.text)
     /\ Ordinal(DateValue(req.start.text)) <= Ordinal(DateValue(req.end.text))
     /\ DateValue(req.end.text) # <<9999, 12, 31>>)
    => OnePerDay(Ordinal(DateValue(req.start.text)),
                 Ordinal(DateValue(req.end.text)))

C1_Witness ==
    /\ resp.op = "meal_history"
    /\ resp.status = 200
    /\ req.start.text = D_1230 /\ req.end.text = D_0101
    /\ Len(resp.dates) = 3
    /\ resp.calories[1] = 0 /\ resp.calories[2] > 0 /\ resp.calories[3] > 0

\* C2: in every answered aggregation, the value of each nutrient on each
\* listed day is the sum of that nutrient over exactly the stored meals of
\* the requested user whose date, cut to the calendar day, is that day; the
\* listed days lie in [start, end] and include the day of every meal of that
\* user in the range, so other users' meals and meals outside the range add
\* nothing.
C2_Summation ==
    (resp.op = "meal_history" /\ resp.status = 200)
    => /\ \A i \in 1..Len(resp.dates) :
             /\ Ordinal(DateValue(req.start.text))
                   <= Ordinal(DateValue(resp.dates[i]))
             /\ Ordinal(DateValue(resp.dates[i]))
                   <= Ordinal(DateValue(req.end.text))
             /\ \A f \in NutritionFields :
                   resp[f][i] = Total(MealsOn(RequestedUser,
                                              DateValue(resp.dates[i])), f)
       /\ \A m \in meals :
             (/\ m.user_id = RequestedUser
              /\ Ordinal(DateValue(req.start.text))
                    <= Ordinal(<<m.date.year, m.date.month, m.date.day>>)
              /\ Ordinal(<<m.date.year, m.date.month, m.date.day>>)
                    <= Ordinal(DateValue(req.end.text)))
             => \E i \in 1..Len(resp.dates) :
                   DateValue(resp.dates[i])
                      = <<m.date.year, m.date.month, m.date.day>>

\* two meals of the requested user summed into one day, one of them after
\* midnight, while another user's meal is stored
C2_Witness ==
    /\ resp.op = "meal_history"
    /\ resp.status = 200
    /\ \E i \in 1..Len(resp.dates) :
          /\ Cardinality(MealsOn(RequestedUser, DateValue(resp.dates[i]))) = 2
          /\ resp.calories[i] = 12
          /\ \E m \in MealsOn(RequestedUser, DateValue(resp.dates[i])) :
                m.date.tod = 1

\* an argument of r is missing or empty
ArgumentMissing(r) == Falsy(r.start) \/ Falsy(r.end) \/ Falsy(r.user_id)

\* C10 as claimed: whenever start, end or user_id is missing or empty, or
\* start or end is not a date written YYYY-MM-DD, the answer is 400 and
\* carries no aggregation.
C10_Original ==
    (/\ resp.op = "meal_history"
     /\ \/ ArgumentMissing(req)
        \/ ~IsIsoDate(req.start.text) \/ ~IsIsoDate(req.end.text))
    => (resp.status = 400 /\ "dates" \notin DOMAIN resp)

\* C10: whenever start, end or user_id is missing or empty, or start or end
\* is not a calendar date with a four-digit year and a month and a day of
\* one or two digits, GET /meal_history answers 400, the answer carries no
\* aggregation, and the stored meals and users are as before.
C10_BadArgumentsAre400 ==
    [][(/\ Handled("meal_history")
        /\ \/ ArgumentMissing(req')
           \/ ~IsLooseDate(req'.start.text) \/ ~IsLooseDate(req'.end.text))
         => /\ resp'.status = 400
            /\ "dates" \notin DOMAIN resp'
            /\ meals' = meals /\ users' = users]_vars

C10_Witness ==
    /\ resp.op = "meal_history"
    /\ resp.status = 400
    /\ req.start.text = D_0229_noleap
    /\ meals # {}

----------------------------------------------------------------------------
(* POST /users: claims C3 (under Spec) and C9 (under SpecConc) *)

WithUsername(rows, name) == {u \in rows : u.username = name}

\* C3: a POST /users for a username no stored user has is answered with the
\* new user, which is then the one stored user of that name; a POST /users
\* for a username that is stored (so the same request repeated) is answered
\* 400 'Username already exists' and leaves the stored users as they were.
C3_SecondCreateRejected ==
    [][(Handled("create_user") /\ ~Falsy(req'.username))
         => IF WithUsername(users, req'.username.text) = {}
            THEN /\ resp'.status = 200
                 /\ resp'.user.username = req'.username.text
                 /\ resp'.user \in users'
                 /\ users' = users \cup {resp'.user}
                 /\ Cardinality(WithUsername(users', req'.username.text)) = 1
            ELSE /\ resp'.status = 400
                 /\ resp'.error = "Username already exists"
                 /\ users' = users
                 /\ Cardinality(WithUsername(users', req'.username.text)) = 1]_vars

\* the repeated request has been answered 400 while a second user is stored
C3_Witness ==
    /\ resp.op = "create_user"
    /\ resp.status = 400
    /\ resp.error = "Username already exists"
    /\ req.username.text = <<"a">>
    /\ Cardinality(WithUsername(users, <<"a">>)) = 1
    /\ Cardinality(users) = 2

\* C9: however the existence checks and the commits of concurrent POST
\* /users requests interleave, no two stored users share a username; a
\* request that passed its check and is refused at the commit is refused
\* because the name is stored by then.
C9_NoDuplicateUsername ==
    /\ \A u \in users, v \in users : u.username = v.username => u = v
    /\ (resp.op = "create_user" /\ resp.status = 500)
          => WithUsername(users, req.username.text) # {}

\* two workers passed the check for one name; the second commit was refused
C9_Witness ==
    /\ resp.op = "create_user"
    /\ resp.status = 500
    /\ resp.exception = "IntegrityError"
    /\ Cardinality(WithUsername(users, req.username.text)) = 1

----------------------------------------------------------------------------
(* POST /save_meal and POST /upload: claims C4 to C8 (under Spec) *)

\* C4: every stored meal has the user_id of a stored user.
C4_MealsReferenceUsers ==
    \A m \in meals : \E u \in users : u.id = m.user_id

\* C5: a POST /save_meal whose body has no user_id is answered 400 and the
\* stored meals and users are as before, whatever else the body holds.
C5_NoUserIdIs400 ==
    [][(Handled("save_meal") /\ ~req'.body.has_user_id)
         => /\ resp'.status = 400
            /\ meals' = meals /\ users' = users]_vars

C5_Witness ==
    /\ resp.op = "save_meal"
    /\ resp.status = 400
    /\ ~req.body.has_user_id
    /\ ~req.body.complete
    /\ meals # {}

\* C6: a POST /upload without the part meal_photo, or with an empty
\* filename, is answered 400 and makes no outbound model call.
C6_NoFileIs400 ==
    (resp.op = "upload" /\ (~req.file.present \/ req.file.filename = <<>>))
    => (resp.status = 400 /\ calls = 0)

\* C6 without the status: such a request makes no outbound model call
C6_NoFileNoCall ==
    (resp.op = "upload" /\ (~req.file.present \/ req.file.filename = <<>>))
    => calls = 0

\* C7: a POST /upload leaves the stored meals and users as they were,
\* whatever its answer; the meal table changes only in a POST /save_meal.
C7_UploadStoresNothing ==
    [][/\ Handled("upload") => (meals' = meals /\ users' = users)
       /\ meals' # meals => Handled("save_meal")]_vars

\* a failed analysis, after the call, with rows stored
C7_Witness ==
    /\ resp.op = "upload"
    /\ resp.status = 500
    /\ calls = 1
    /\ meals # {} /\ users # {}

\* C8: no step removes or changes a stored meal or user: the rows stored
\* before a step are stored, every field unchanged, after it.
C8_RowsAreKept ==
    [][meals \subseteq meals' /\ users \subseteq users']_vars

\* a user with two meals, the second saved after the first
C8_Witness ==
    /\ Cardinality(users) = 2
    /\ \E m \in meals, n \in meals : m.id # n.id /\ m.user_id = n.user_id

====
